---- MODULE Spec2Model ----
(***************************************************************************)
(* Model of mcproxy's configuration loader,                                *)
(* mcproxy/src/parser/configuration.cpp.                                   *)
(*                                                                         *)
(* Two specifications are given:                                           *)
(*   SplitSpec  the text stage of the constructor (line 37):               *)
(*              delete_comments and separate_commands, applied to every    *)
(*              script text over Alphabet of at most MaxLen characters;    *)
(*   Spec       the compile stage of the constructor (lines 38-42):        *)
(*              run_parser, one loop iteration per step, followed by       *)
(*              initalize_interfaces, one loop iteration per step, for     *)
(*              every script of at most MaxCmds commands.                  *)
(* A text is a sequence of one-character strings.  Positions inside the    *)
(* operators that model std::string members are 0-based, as in the code.   *)
(***************************************************************************)
EXTENDS Integers, Sequences, FiniteSets

VARIABLES
    file,                       \* the text of the script, as handed to delete_comments
    script_file,                \* the text handed from delete_comments on
    m_cmds,                     \* configuration::m_cmds
    m_in_debug_testing_mode,    \* configuration::m_in_debug_testing_mode
    m_gmp,                      \* configuration::m_gmp
    m_global_table_set,         \* configuration::m_global_table_set
    m_inst_def_set,             \* configuration::m_inst_def_set
    m_interfaces_map,           \* configuration::m_interfaces_map
    if_index_of,                \* the operating system's answer to get_if_index
    lookups,                    \* the names interfaces::get_if_index was called with
    pc,                         \* the constructor's position
    cmd_it,                     \* run_parser's loop position in m_cmds (1-based)
    inst_it,                    \* initalize_interfaces' loop position (1-based)
    conf                        \* what the caller of the constructor holds

vars == <<file, script_file, m_cmds, m_in_debug_testing_mode, m_gmp,
          m_global_table_set, m_inst_def_set, m_interfaces_map, if_index_of,
          lookups, pc, cmd_it, inst_it, conf>>

-----------------------------------------------------------------------------
(* Bounds of the model.                                                    *)

MaxLen == 6

MaxCmds == 3

-----------------------------------------------------------------------------
(* Text helpers: std::string members and the file's inline helpers.        *)

comment_char == "#"

end_of_comment == "\n"

cmd_separator == ";"

Alphabet == {comment_char, end_of_comment, cmd_separator, " ", "a"}

Texts == UNION {[1..n -> Alphabet] : n \in 0..MaxLen}

\* std::string::npos, the "not found" position
npos == -1

\* std::isspace on the characters of Alphabet
isspace(c) == c \in {" ", "\n"}

Min(S) == CHOOSE x \in S : \A y \in S : x <= y

\* std::string::find(ch, pos), 0-based
find(s, ch, pos) ==
    LET hits == {i \in pos..(Len(s) - 1) : s[i + 1] = ch}
    IN  IF hits = {} THEN npos ELSE Min(hits)

\* std::string::substr(pos, n)
substr(s, pos, n) == SubSeq(s, pos + 1, pos + n)

\* std::string::erase(pos, n)
erase(s, pos, n) == SubSeq(s, 1, pos) \o SubSeq(s, pos + n + 1, Len(s))

RECURSIVE ltrim(_)
ltrim(s) ==
    IF s = <<>> THEN s
    ELSE IF isspace(Head(s)) THEN ltrim(Tail(s)) ELSE s

RECURSIVE rtrim(_)
rtrim(s) ==
    IF s = <<>> THEN s
    ELSE IF isspace(s[Len(s)]) THEN rtrim(SubSeq(s, 1, Len(s) - 1)) ELSE s

trim(s) == ltrim(rtrim(s))

RECURSIVE count_chars(_, _)
count_chars(s, comp) ==
    IF s = <<>> THEN 0
    ELSE (IF Head(s) = comp THEN 1 ELSE 0) + count_chars(Tail(s), comp)

-----------------------------------------------------------------------------
(* delete_comments: the while loop, entered with cc the position of the    *)
(* first comment_char.                                                     *)

RECURSIVE delete_comments_loop(_, _)
delete_comments_loop(text, cc) ==
    IF cc = npos THEN text
    ELSE LET eoc == find(text, end_of_comment, cc + 1)
         IN  IF eoc = npos THEN substr(text, 0, cc)
             ELSE LET erased == erase(text, cc, eoc - cc)
                  IN  delete_comments_loop(erased, find(erased, comment_char, cc))

\* A plausible slip: `if' in place of `while', only the first comment goes.
delete_comments_first_only(text) ==
    LET cc == find(text, comment_char, 0)
    IN  IF cc = npos THEN text
        ELSE LET eoc == find(text, end_of_comment, cc + 1)
             IN  IF eoc = npos THEN substr(text, 0, cc)
                 ELSE erase(text, cc, eoc - cc)

delete_comments(text) == delete_comments_loop(text, find(text, comment_char, 0))

-----------------------------------------------------------------------------
(* separate_commands: the while loop over std::getline(ss, item, ';').     *)
(* rest is what the stream still holds; getline fails, and the loop ends,  *)
(* when nothing is left.  A command is <<line, text>>.  The counters are   *)
(* unsigned int; a text of MaxLen characters holds at most MaxLen newlines *)
(* and line_count_after never exceeds line_count_before, so no counter     *)
(* wraps.                                                                  *)

RECURSIVE separate_commands_loop(_, _, _)
separate_commands_loop(rest, current_line, result) ==
    IF rest = <<>> THEN result
    ELSE
      LET p == find(rest, cmd_separator, 0)
          item == IF p = npos THEN rest ELSE substr(rest, 0, p)
          after == IF p = npos THEN <<>> ELSE SubSeq(rest, p + 2, Len(rest))
          line_count_before == count_chars(item, "\n")
          ltrimmed == ltrim(item)
          line_count_after == count_chars(ltrimmed, "\n")
          trimmed == rtrim(ltrimmed)
          line == current_line + (line_count_before - line_count_after)
          pushed == IF trimmed # <<>> THEN Append(result, <<line, trimmed>>)
                    ELSE result
      IN  separate_commands_loop(after, current_line + line_count_before, pushed)

\* A plausible slip: the line of a command is the running counter, the
\* leading newlines trimmed from the segment are not added.
RECURSIVE separate_commands_no_adjust_loop(_, _, _)
separate_commands_no_adjust_loop(rest, current_line, result) ==
    IF rest = <<>> THEN result
    ELSE
      LET p == find(rest, cmd_separator, 0)
          item == IF p = npos THEN rest ELSE substr(rest, 0, p)
          after == IF p = npos THEN <<>> ELSE SubSeq(rest, p + 2, Len(rest))
          line_count_before == count_chars(item, "\n")
          trimmed == rtrim(ltrim(item))
          pushed == IF trimmed # <<>> THEN Append(result, <<current_line, trimmed>>)
                    ELSE result
      IN  separate_commands_no_adjust_loop(after, current_line + line_count_before, pushed)

separate_commands_no_adjust(text) == separate_commands_no_adjust_loop(text, 1, <<>>)

\* A plausible slip: rtrim is left out, trailing whitespace stays in the
\* command and a whitespace-only segment is still dropped by ltrim.
RECURSIVE separate_commands_no_rtrim_loop(_, _, _)
separate_commands_no_rtrim_loop(rest, current_line, result) ==
    IF rest = <<>> THEN result
    ELSE
      LET p == find(rest, cmd_separator, 0)
          item == IF p = npos THEN rest ELSE substr(rest, 0, p)
          after == IF p = npos THEN <<>> ELSE SubSeq(rest, p + 2, Len(rest))
          line_count_before == count_chars(item, "\n")
          ltrimmed == ltrim(item)
          line_count_after == count_chars(ltrimmed, "\n")
          line == current_line + (line_count_before - line_count_after)
          pushed == IF ltrimmed # <<>> THEN Append(result, <<line, ltrimmed>>)
                    ELSE result
      IN  separate_commands_no_rtrim_loop(after, current_line + line_count_before, pushed)

separate_commands_no_rtrim(text) == separate_commands_no_rtrim_loop(text, 1, <<>>)

separate_commands(text) == separate_commands_loop(text, 1, <<>>)

-----------------------------------------------------------------------------
(* The compile stage.  In Spec a command of m_cmds is <<line, c>> with c   *)
(* the parsed form of the command text, that is what class parser makes    *)
(* of it: c.type is parser::get_parser_type().                             *)

default_gmp == "IGMPv3"

IfNames == {"eth0", "eth1"}

\* 0 is what interfaces::get_if_index returns for an unknown interface
Handles == {0, 1, 2}

ProtocolCmds ==
    {[type |-> "PT_PROTOCOL", gmp |-> g] : g \in {"MLDv1", "MLDv2"}}

TableCmds ==
    {[type |-> "PT_TABLE", name |-> "T1", contents |-> c] : c \in {"A", "B"}}
        \cup {[type |-> "PT_TABLE", name |-> "T2", contents |-> "A"]}

InstanceCmds ==
    {[type |-> "PT_INSTANCE_DEFINITION", name |-> "P1",
      downstreams |-> <<"eth0">>, upstreams |-> <<"eth0">>],
     [type |-> "PT_INSTANCE_DEFINITION", name |-> "P2",
      downstreams |-> <<"eth0">>, upstreams |-> <<"eth1">>]}

BindingCmds ==
    {[type |-> "PT_INTERFACE_RULE_BINDING", instance |-> "P1",
      if_name |-> "eth0", table |-> "T1"],
     [type |-> "PT_INTERFACE_RULE_BINDING", instance |-> "P2",
      if_name |-> "eth1", table |-> "T2"]}

OtherCmds == {[type |-> "PT_OTHER"]}

Commands == ProtocolCmds \cup TableCmds \cup InstanceCmds \cup BindingCmds \cup OtherCmds

Scripts ==
    UNION {{[i \in 1..n |-> <<i, f[i]>>] : f \in [1..n -> Commands]} : n \in 0..MaxCmds}

TableNames(tables) == {t.name : t \in tables}

InstanceNames(insts) == {insts[i].name : i \in DOMAIN insts}

\* parser::parse_group_mem_proto
parse_group_mem_proto(c) == c.gmp

\* parser::parse_table
parse_table(c, tables, gmp) == [name |-> c.name, contents |-> c.contents]

\* global_table_set::insert: a set ordered by table name; ok is the bool it returns
global_table_set_insert(tables, t) ==
    IF t.name \in TableNames(tables)
    THEN [ok |-> FALSE, tables |-> tables]
    ELSE [ok |-> TRUE, tables |-> tables \cup {t}]

NoRepeat(names) == \A i, j \in DOMAIN names : names[i] = names[j] => i = j

NewInterfaces(names) == [i \in DOMAIN names |-> [if_name |-> names[i], rules |-> {}]]

\* parser::parse_instance_definition: adds the instance to the Instance Set
parse_instance_definition(c, insts) ==
    IF c.name \in InstanceNames(insts)
      THEN [thrown |-> "instance already exists", insts |-> insts]
    ELSE IF ~NoRepeat(c.downstreams) \/ ~NoRepeat(c.upstreams)
      THEN [thrown |-> "interface already exists", insts |-> insts]
    ELSE [thrown |-> "",
          insts |-> Append(insts, [name |-> c.name,
                                   downstreams |-> NewInterfaces(c.downstreams),
                                   upstreams |-> NewInterfaces(c.upstreams)])]

HasInterface(inst, if_name) ==
    \/ \E i \in DOMAIN inst.downstreams : inst.downstreams[i].if_name = if_name
    \/ \E i \in DOMAIN inst.upstreams : inst.upstreams[i].if_name = if_name

AttachRule(ifs, if_name, table) ==
    [i \in DOMAIN ifs |->
        IF ifs[i].if_name = if_name
        THEN [ifs[i] EXCEPT !.rules = @ \cup {table}]
        ELSE ifs[i]]

\* parser::parse_interface_rule_binding: the instance, the interface and the
\* table must exist in the sets handed in; the rule goes to the interface
parse_interface_rule_binding(c, tables, gmp, insts) ==
    IF ~\E i \in DOMAIN insts :
            insts[i].name = c.instance /\ HasInterface(insts[i], c.if_name)
      THEN [thrown |-> "unknown instance or interface", insts |-> insts]
    ELSE IF c.table \notin TableNames(tables)
      THEN [thrown |-> "unknown table", insts |-> insts]
    ELSE [thrown |-> "",
          insts |-> [i \in DOMAIN insts |->
                IF insts[i].name = c.instance
                THEN [insts[i] EXCEPT
                        !.downstreams = AttachRule(@, c.if_name, c.table),
                        !.upstreams = AttachRule(@, c.if_name, c.table)]
                ELSE insts[i]]]

(* The cases of run_parser's switch.  Each takes the command and the       *)
(* members s = [gmp, tables, insts] and gives the members after the case   *)
(* with thrown the message of the exception it raised, "" when none.       *)

case_PT_PROTOCOL(c, s) ==
    [thrown |-> "", gmp |-> parse_group_mem_proto(c),
     tables |-> s.tables, insts |-> s.insts]

case_PT_INSTANCE_DEFINITION(c, s) ==
    LET r == parse_instance_definition(c, s.insts)
    IN  [thrown |-> r.thrown, gmp |-> s.gmp, tables |-> s.tables, insts |-> r.insts]

\* A plausible slip: the bool returned by insert is not looked at.
case_PT_TABLE_unchecked(c, s) ==
    LET t == parse_table(c, s.tables, s.gmp)
        r == global_table_set_insert(s.tables, t)
    IN  [thrown |-> "", gmp |-> s.gmp, tables |-> r.tables, insts |-> s.insts]

case_PT_TABLE(c, s) ==
    LET t == parse_table(c, s.tables, s.gmp)
        r == global_table_set_insert(s.tables, t)
    IN  [thrown |-> IF r.ok THEN "" ELSE "failed to parse configfile",
         gmp |-> s.gmp, tables |-> r.tables, insts |-> s.insts]

\* A plausible slip: the tables are collected from the whole script before
\* the bindings are parsed, so a binding sees a table defined after it.
case_PT_INTERFACE_RULE_BINDING_all_tables(c, s) ==
    LET later == {[name |-> m_cmds[i][2].name, contents |-> m_cmds[i][2].contents] :
                    i \in {j \in DOMAIN m_cmds : m_cmds[j][2].type = "PT_TABLE"}}
        r == parse_interface_rule_binding(c, s.tables \cup later, s.gmp, s.insts)
    IN  [thrown |-> r.thrown, gmp |-> s.gmp, tables |-> s.tables, insts |-> r.insts]

case_PT_INTERFACE_RULE_BINDING(c, s) ==
    LET r == parse_interface_rule_binding(c, s.tables, s.gmp, s.insts)
    IN  [thrown |-> r.thrown, gmp |-> s.gmp, tables |-> s.tables, insts |-> r.insts]

case_default(c, s) ==
    [thrown |-> "unkown parser type", gmp |-> s.gmp,
     tables |-> s.tables, insts |-> s.insts]

\* A plausible slip: the exception of a command is caught and logged inside
\* the loop, and the loop goes on with the next command.
run_parser_body_catching(c, s) ==
    LET r == CASE c.type = "PT_PROTOCOL" -> case_PT_PROTOCOL(c, s)
               [] c.type = "PT_INSTANCE_DEFINITION" -> case_PT_INSTANCE_DEFINITION(c, s)
               [] c.type = "PT_TABLE" -> case_PT_TABLE(c, s)
               [] c.type = "PT_INTERFACE_RULE_BINDING" -> case_PT_INTERFACE_RULE_BINDING(c, s)
               [] OTHER -> case_default(c, s)
    IN  IF r.thrown # ""
        THEN [thrown |-> "", gmp |-> s.gmp, tables |-> s.tables, insts |-> s.insts]
        ELSE r

\* the body of run_parser's for loop: the switch on p.get_parser_type()
run_parser_body(c, s) ==
    CASE c.type = "PT_PROTOCOL" -> case_PT_PROTOCOL(c, s)
      [] c.type = "PT_INSTANCE_DEFINITION" -> case_PT_INSTANCE_DEFINITION(c, s)
      [] c.type = "PT_TABLE" -> case_PT_TABLE(c, s)
      [] c.type = "PT_INTERFACE_RULE_BINDING" -> case_PT_INTERFACE_RULE_BINDING(c, s)
      [] OTHER -> case_default(c, s)

Members == [gmp |-> m_gmp, tables |-> m_global_table_set, insts |-> m_inst_def_set]

\* the object the caller holds once the constructor has returned
Object ==
    [kind |-> "object", m_gmp |-> m_gmp, m_global_table_set |-> m_global_table_set,
     m_inst_def_set |-> m_inst_def_set, m_interfaces_map |-> m_interfaces_map]

\* an exception leaves the constructor: the caller holds no object
Exception(what) == [kind |-> "exception", what |-> what]

-----------------------------------------------------------------------------
(* initalize_interfaces.                                                   *)

\* get_addr_family(m_gmp)
get_addr_family(gmp) == IF gmp \in {"MLDv1", "MLDv2"} THEN "AF_INET6" ELSE "AF_INET"

\* std::make_shared<interfaces>(get_addr_family(m_gmp), ...)
make_interfaces(gmp) == [addr_family |-> get_addr_family(gmp), if_indexes |-> {}]

\* interfaces::get_if_index
get_if_index(if_name) == if_index_of[if_name]

\* interfaces::add_interface(if_index): the handle joins the group's handles;
\* a handle the group already holds is accepted
add_interface(result, if_index) ==
    IF if_index = 0
    THEN [ok |-> FALSE, result |-> result]
    ELSE [ok |-> TRUE, result |-> [result EXCEPT !.if_indexes = @ \cup {if_index}]]

(* The lambda add.  acc = [thrown, result, lookups] is the state it works  *)
(* on: the exception raised so far ("" when none), the interfaces object   *)
(* under construction and the names get_if_index was called with.          *)

\* A plausible slip: an interface that is not found is logged and skipped.
add_skipping_unknown(acc, if_name) ==
    IF acc.thrown # "" THEN acc
    ELSE LET if_index == get_if_index(if_name)
             seen == acc.lookups \cup {if_name}
         IN  IF if_index = 0
             THEN [thrown |-> "", result |-> acc.result, lookups |-> seen]
             ELSE LET r == add_interface(acc.result, if_index)
                  IN  [thrown |-> IF r.ok THEN "" ELSE "failed to add interface",
                       result |-> r.result, lookups |-> seen]

\* A plausible slip: a handle the group already holds is refused.
add_refusing_duplicates(acc, if_name) ==
    IF acc.thrown # "" THEN acc
    ELSE LET if_index == get_if_index(if_name)
             seen == acc.lookups \cup {if_name}
         IN  IF if_index = 0
             THEN [thrown |-> "unknown interface", result |-> acc.result, lookups |-> seen]
             ELSE IF if_index \in acc.result.if_indexes
             THEN [thrown |-> "failed to add interface", result |-> acc.result,
                   lookups |-> seen]
             ELSE LET r == add_interface(acc.result, if_index)
                  IN  [thrown |-> IF r.ok THEN "" ELSE "failed to add interface",
                       result |-> r.result, lookups |-> seen]

add(acc, if_name) ==
    IF acc.thrown # "" THEN acc
    ELSE LET if_index == get_if_index(if_name)
             seen == acc.lookups \cup {if_name}
         IN  IF if_index = 0
             THEN [thrown |-> "unknown interface", result |-> acc.result, lookups |-> seen]
             ELSE LET r == add_interface(acc.result, if_index)
                  IN  [thrown |-> IF r.ok THEN "" ELSE "failed to add interface",
                       result |-> r.result, lookups |-> seen]

\* the two for loops over get_downstreams() and get_upstreams()
RECURSIVE add_each(_, _)
add_each(acc, ifs) ==
    IF ifs = <<>> THEN acc
    ELSE add_each(add(acc, Head(ifs).if_name), Tail(ifs))

\* m_interfaces_map.insert(pair(name, result)): second is the bool of the pair
interfaces_map_insert(map, name, result) ==
    IF name \in DOMAIN map
    THEN [second |-> FALSE, map |-> map]
    ELSE [second |-> TRUE,
          map |-> [n \in DOMAIN map \cup {name} |-> IF n = name THEN result ELSE map[n]]]

\* the body of initalize_interfaces' for loop, for the instance inst
initalize_interfaces_body(inst, gmp, map, looked) ==
    LET start == [thrown |-> "", result |-> make_interfaces(gmp), lookups |-> looked]
        acc == add_each(add_each(start, inst.downstreams), inst.upstreams)
        ins == interfaces_map_insert(map, inst.name, acc.result)
    IN  IF acc.thrown # ""
        THEN [thrown |-> acc.thrown, map |-> map, lookups |-> acc.lookups]
        ELSE [thrown |-> IF ins.second THEN "" ELSE "failed to add instance",
              map |-> ins.map, lookups |-> acc.lookups]

\* A plausible slip: the test of the mode is left out.
calls_initalize_interfaces_always == TRUE

\* the constructor's test before initalize_interfaces()
calls_initalize_interfaces == ~m_in_debug_testing_mode

\* the null std::shared_ptr
nullptr == [ptr |-> "null"]

\* get_interfaces_for_pinstance, on the object the caller holds
get_interfaces_for_pinstance(instance_name) ==
    IF instance_name \in DOMAIN conf.m_interfaces_map
    THEN conf.m_interfaces_map[instance_name]
    ELSE nullptr

-----------------------------------------------------------------------------
(* The state machines.                                                     *)

EmptyMap == [n \in {} |-> 0]

NoObject == [kind |-> "none"]

CompileFieldsInit ==
    /\ m_gmp = default_gmp
    /\ m_global_table_set = {}
    /\ m_inst_def_set = <<>>
    /\ m_interfaces_map = EmptyMap
    /\ lookups = {}
    /\ cmd_it = 1
    /\ inst_it = 1
    /\ conf = NoObject

\* Spec starts where the constructor calls run_parser: m_cmds is set
Init ==
    /\ file = <<>>
    /\ script_file = <<>>
    /\ m_cmds \in Scripts
    /\ m_in_debug_testing_mode \in BOOLEAN
    /\ if_index_of \in [IfNames -> Handles]
    /\ pc = "run_parser"
    /\ CompileFieldsInit

\* SplitSpec starts with a text handed to delete_comments: the text of a
\* file (line 37) or a literal such as those of test_configuration (lines
\* 229-241), which need not end with a line end
SplitInit ==
    /\ file \in Texts
    /\ script_file = file
    /\ m_cmds = <<>>
    /\ m_in_debug_testing_mode = TRUE
    /\ if_index_of = [n \in IfNames |-> 0]
    /\ pc = "delete_comments"
    /\ CompileFieldsInit

DeleteComments ==
    /\ pc = "delete_comments"
    /\ script_file' = delete_comments(script_file)
    /\ pc' = "separate_commands"
    /\ UNCHANGED <<file, m_cmds, m_in_debug_testing_mode, m_gmp, m_global_table_set,
                   m_inst_def_set, m_interfaces_map, if_index_of, lookups,
                   cmd_it, inst_it, conf>>

SeparateCommands ==
    /\ pc = "separate_commands"
    /\ m_cmds' = separate_commands(script_file)
    /\ pc' = "run_parser"
    /\ UNCHANGED <<file, script_file, m_in_debug_testing_mode, m_gmp,
                   m_global_table_set, m_inst_def_set, m_interfaces_map,
                   if_index_of, lookups, cmd_it, inst_it, conf>>

\* one iteration of run_parser's loop
RunParserStep ==
    /\ pc = "run_parser"
    /\ cmd_it <= Len(m_cmds)
    /\ LET r == run_parser_body(m_cmds[cmd_it][2], Members)
       IN  /\ m_gmp' = r.gmp
           /\ m_global_table_set' = r.tables
           /\ m_inst_def_set' = r.insts
           /\ IF r.thrown # ""
              THEN /\ conf' = Exception(r.thrown)
                   /\ pc' = "done"
                   /\ UNCHANGED cmd_it
              ELSE /\ cmd_it' = cmd_it + 1
                   /\ UNCHANGED <<conf, pc>>
    /\ UNCHANGED <<file, script_file, m_cmds, m_in_debug_testing_mode,
                   m_interfaces_map, if_index_of, lookups, inst_it>>

\* run_parser returns; the constructor tests the mode
RunParserReturn ==
    /\ pc = "run_parser"
    /\ cmd_it > Len(m_cmds)
    /\ IF calls_initalize_interfaces
       THEN /\ pc' = "initalize_interfaces"
            /\ UNCHANGED conf
       ELSE /\ pc' = "done"
            /\ conf' = Object
    /\ UNCHANGED <<file, script_file, m_cmds, m_in_debug_testing_mode, m_gmp,
                   m_global_table_set, m_inst_def_set, m_interfaces_map,
                   if_index_of, lookups, cmd_it, inst_it>>

\* one iteration of initalize_interfaces' loop
InitalizeInterfacesStep ==
    /\ pc = "initalize_interfaces"
    /\ inst_it <= Len(m_inst_def_set)
    /\ LET r == initalize_interfaces_body(m_inst_def_set[inst_it], m_gmp,
                                          m_interfaces_map, lookups)
       IN  /\ m_interfaces_map' = r.map
           /\ lookups' = r.lookups
           /\ IF r.thrown # ""
              THEN /\ conf' = Exception(r.thrown)
                   /\ pc' = "done"
                   /\ UNCHANGED inst_it
              ELSE /\ inst_it' = inst_it + 1
                   /\ UNCHANGED <<conf, pc>>
    /\ UNCHANGED <<file, script_file, m_cmds, m_in_debug_testing_mode, m_gmp,
                   m_global_table_set, m_inst_def_set, if_index_of, cmd_it>>

\* initalize_interfaces returns and with it the constructor
InitalizeInterfacesReturn ==
    /\ pc = "initalize_interfaces"
    /\ inst_it > Len(m_inst_def_set)
    /\ pc' = "done"
    /\ conf' = [Object EXCEPT !.m_interfaces_map = m_interfaces_map]
    /\ UNCHANGED <<file, script_file, m_cmds, m_in_debug_testing_mode, m_gmp,
                   m_global_table_set, m_inst_def_set, m_interfaces_map,
                   if_index_of, lookups, cmd_it, inst_it>>

Next ==
    \/ RunParserStep
    \/ RunParserReturn
    \/ InitalizeInterfacesStep
    \/ InitalizeInterfacesReturn

Spec == Init /\ [][Next]_vars

SplitNext ==
    \/ DeleteComments
    \/ SeparateCommands

SplitSpec == SplitInit /\ [][SplitNext]_vars

-----------------------------------------------------------------------------
(* Vocabulary of the properties.                                           *)

\* run_parser is about to process the command at cmd_it
AtCmd == pc = "run_parser" /\ cmd_it <= Len(m_cmds)

CurCmd == m_cmds[cmd_it][2]

\* initalize_interfaces is about to process the instance at inst_it
AtInst == pc = "initalize_interfaces" /\ inst_it <= Len(m_inst_def_set)

CurInst == m_inst_def_set[inst_it]

\* every command was parsed and applied
ParsedAll == cmd_it > Len(m_cmds)

IfNamesOf(inst) ==
    {inst.downstreams[i].if_name : i \in DOMAIN inst.downstreams}
        \cup {inst.upstreams[i].if_name : i \in DOMAIN inst.upstreams}

\* the resolver answers NOT_FOUND for an interface of the instance
NotFoundIn(inst) == \E n \in IfNamesOf(inst) : if_index_of[n] = 0

\* a downstream and an upstream interface of the instance resolve to the
\* same handle
SharedHandle(inst) ==
    \E d \in DOMAIN inst.downstreams, u \in DOMAIN inst.upstreams :
        /\ if_index_of[inst.downstreams[d].if_name] # 0
        /\ if_index_of[inst.downstreams[d].if_name] = if_index_of[inst.upstreams[u].if_name]

\* the command c cannot be applied to the sets as they stand
Fails(c) ==
    CASE c.type = "PT_PROTOCOL" -> FALSE
      [] c.type = "PT_TABLE" -> c.name \in TableNames(m_global_table_set)
      [] c.type = "PT_INSTANCE_DEFINITION" -> c.name \in InstanceNames(m_inst_def_set)
      [] c.type = "PT_INTERFACE_RULE_BINDING" ->
            \/ c.table \notin TableNames(m_global_table_set)
            \/ ~\E i \in DOMAIN m_inst_def_set :
                    /\ m_inst_def_set[i].name = c.instance
                    /\ c.if_name \in IfNamesOf(m_inst_def_set[i])
      [] OTHER -> TRUE

-----------------------------------------------------------------------------
\* C1: a Protocol Declaration processed after an earlier Protocol
\* Declaration of the same script makes compilation fail, and the protocol
\* value set by the first declaration is not overwritten.
C1_SecondProtocolDeclarationFails ==
    [][(/\ AtCmd
        /\ CurCmd.type = "PT_PROTOCOL"
        /\ \E j \in 1..(cmd_it - 1) : m_cmds[j][2].type = "PT_PROTOCOL")
       => (conf'.kind = "exception" /\ m_gmp' = m_gmp)]_vars

\* C2: table names in the Table Set are pairwise distinct in every state of
\* compilation and in the object handed out, and a Table Definition whose
\* name is already in the Table Set makes compilation fail with "failed to
\* parse configfile" and leaves the Table Set as it was.
C2_DuplicateTableRejected ==
    /\ [](\A t1, t2 \in m_global_table_set : t1.name = t2.name => t1 = t2)
    /\ [](conf.kind = "object" =>
            \A t1, t2 \in conf.m_global_table_set : t1.name = t2.name => t1 = t2)
    /\ [][(/\ AtCmd
           /\ CurCmd.type = "PT_TABLE"
           /\ CurCmd.name \in TableNames(m_global_table_set))
          => (/\ conf' = Exception("failed to parse configfile")
              /\ m_global_table_set' = m_global_table_set)]_vars

\* C2 witness: compilation failed on a table command whose name is held by
\* a table of other contents, which is still in the Table Set.
C2_Witness ==
    /\ conf = Exception("failed to parse configfile")
    /\ cmd_it <= Len(m_cmds)
    /\ m_cmds[cmd_it][2].type = "PT_TABLE"
    /\ \E t \in m_global_table_set :
            /\ t.name = m_cmds[cmd_it][2].name
            /\ t.contents # m_cmds[cmd_it][2].contents

\* C3: commands are processed in script order, one at a time; the first
\* command that fails ends compilation with an exception; from then on the
\* protocol value, the Table Set, the Instance Set and the loop position do
\* not change, the resolver is never called, and the caller never holds an
\* object.
C3_StopsAtFirstFailure ==
    /\ [][cmd_it' \in {cmd_it, cmd_it + 1}]_vars
    /\ [][(AtCmd /\ Fails(CurCmd))
          => (conf'.kind = "exception" /\ pc' = "done" /\ cmd_it' = cmd_it)]_vars
    /\ [][conf.kind = "exception"
          => (/\ conf' = conf
              /\ m_gmp' = m_gmp
              /\ m_global_table_set' = m_global_table_set
              /\ m_inst_def_set' = m_inst_def_set
              /\ m_interfaces_map' = m_interfaces_map
              /\ cmd_it' = cmd_it
              /\ lookups' = lookups)]_vars
    /\ []((conf.kind = "exception" /\ ~ParsedAll)
          => (lookups = {} /\ m_interfaces_map = EmptyMap /\ inst_it = 1))
    /\ [](conf.kind = "object" => ParsedAll)

\* C3 witness: in production mode compilation failed on a command that is
\* not the last, after a command that was applied.
C3_Witness ==
    /\ conf.kind = "exception"
    /\ ~m_in_debug_testing_mode
    /\ 1 < cmd_it
    /\ cmd_it < Len(m_cmds)
    /\ m_inst_def_set # <<>>

\* C4: in production mode, when every command was parsed and the resolver
\* answers NOT_FOUND (0) for an interface of any instance, the constructor
\* has ended with "unknown interface": the caller holds the exception and
\* no object, so no Resolved Interface Group of any instance.
C4_UnknownInterfaceFailsWhole ==
    (/\ pc = "done"
     /\ ~m_in_debug_testing_mode
     /\ ParsedAll
     /\ \E i \in DOMAIN m_inst_def_set : NotFoundIn(m_inst_def_set[i]))
    => conf = Exception("unknown interface")

\* C4 witness: the first instance was resolved and entered in the map, the
\* second has an interface that is not found, and the constructor threw.
C4_Witness ==
    /\ conf = Exception("unknown interface")
    /\ inst_it = 2
    /\ DOMAIN m_interfaces_map = {m_inst_def_set[1].name}
    /\ ~NotFoundIn(m_inst_def_set[1])
    /\ NotFoundIn(m_inst_def_set[2])

\* C5: when a downstream and an upstream interface of the instance being
\* resolved have the same handle and no interface of it is unknown, the
\* iteration raises no exception and enters the group, holding exactly the
\* handles of the instance's interfaces, in the map under the instance name.
C5_SharedHandleAccepted ==
    [][(AtInst /\ SharedHandle(CurInst) /\ ~NotFoundIn(CurInst))
       => (/\ conf' = conf
           /\ pc' = pc
           /\ inst_it' = inst_it + 1
           /\ CurInst.name \in DOMAIN m_interfaces_map'
           /\ m_interfaces_map'[CurInst.name].if_indexes
                = {if_index_of[n] : n \in IfNamesOf(CurInst)})]_vars

\* C5 witness: the object handed out holds the group of an instance whose
\* downstream and upstream interfaces differ in name and share the handle.
C5_Witness ==
    /\ conf.kind = "object"
    /\ \E i \in DOMAIN m_inst_def_set :
        /\ SharedHandle(m_inst_def_set[i])
        /\ Cardinality(IfNamesOf(m_inst_def_set[i])) = 2
        /\ m_inst_def_set[i].name \in DOMAIN conf.m_interfaces_map
        /\ Cardinality(conf.m_interfaces_map[m_inst_def_set[i].name].if_indexes) = 1

\* C9: a binding whose table is not in the Table Set when the binding is
\* processed makes compilation fail at that command and attaches nothing,
\* also when a later command of the script defines the table; after the
\* failure nothing is applied any more.
C9_ForwardReferenceFails ==
    /\ [][(/\ AtCmd
           /\ CurCmd.type = "PT_INTERFACE_RULE_BINDING"
           /\ CurCmd.table \notin TableNames(m_global_table_set))
          => (/\ conf'.kind = "exception"
              /\ cmd_it' = cmd_it
              /\ m_inst_def_set' = m_inst_def_set)]_vars
    /\ [][conf.kind = "exception"
          => (conf' = conf /\ m_inst_def_set' = m_inst_def_set
                /\ m_global_table_set' = m_global_table_set)]_vars

\* C9 witness: compilation failed on a binding to an interface that exists,
\* and the table it names is defined by a later command.
C9_Witness ==
    /\ conf = Exception("unknown table")
    /\ cmd_it <= Len(m_cmds)
    /\ m_cmds[cmd_it][2].type = "PT_INTERFACE_RULE_BINDING"
    /\ \E j \in (cmd_it + 1)..Len(m_cmds) :
            /\ m_cmds[j][2].type = "PT_TABLE"
            /\ m_cmds[j][2].name = m_cmds[cmd_it][2].table

\* C10: the resolver is called only in production mode and only after every
\* command was parsed and applied; in debug/test mode the map stays empty,
\* also in the object handed out; in production mode the keys of the map of
\* the object handed out are exactly the names of the Instance Set.
C10_ResolutionAfterParsing ==
    /\ (lookups # {} \/ pc = "initalize_interfaces" \/ m_interfaces_map # EmptyMap)
            => (~m_in_debug_testing_mode /\ ParsedAll)
    /\ m_in_debug_testing_mode =>
            /\ m_interfaces_map = EmptyMap
            /\ conf.kind = "object" => conf.m_interfaces_map = EmptyMap
    /\ (conf.kind = "object" /\ ~m_in_debug_testing_mode) =>
            /\ DOMAIN conf.m_interfaces_map = InstanceNames(conf.m_inst_def_set)
            /\ \A n \in InstanceNames(conf.m_inst_def_set) :
                    get_interfaces_for_pinstance(n) # nullptr

\* C10 witness: a production compile ended with an object of two instances,
\* both resolved.
C10_Witness ==
    /\ conf.kind = "object"
    /\ ~m_in_debug_testing_mode
    /\ Len(conf.m_inst_def_set) = 2
    /\ lookups = IfNames
    /\ Cardinality(DOMAIN conf.m_interfaces_map) = 2

-----------------------------------------------------------------------------
(* Vocabulary of the text properties, stated on positions of the text      *)
(* (1-based) and not by the loops of the code.                             *)

\* the position of the k-th separator of t
SepAt(t, k) ==
    CHOOSE i \in 1..Len(t) :
        t[i] = cmd_separator
            /\ Cardinality({j \in 1..i : t[j] = cmd_separator}) = k

NumSeps(t) == Cardinality({i \in 1..Len(t) : t[i] = cmd_separator})

\* the k-th segment of t: the text between the separators k-1 and k; the
\* segment NumSeps(t)+1 is what follows the last separator
Segment(t, k) ==
    SubSeq(t, IF k = 1 THEN 1 ELSE SepAt(t, k - 1) + 1,
              IF k = NumSeps(t) + 1 THEN Len(t) ELSE SepAt(t, k) - 1)

NonBlank(s) == \E i \in 1..Len(s) : ~isspace(s[i])

\* s from its first to its last character that is not whitespace
Trimmed(s) ==
    LET solid == {i \in 1..Len(s) : ~isspace(s[i])}
    IN  SubSeq(s, CHOOSE i \in solid : \A j \in solid : i <= j,
                  CHOOSE i \in solid : \A j \in solid : j <= i)

\* the trimmed texts of the segments 1..n of t that are not blank, in order
TrimmedSegments(t, n) ==
    LET kept == SelectSeq([k \in 1..n |-> Segment(t, k)], NonBlank)
    IN  [i \in 1..Len(kept) |-> Trimmed(kept[i])]

CommandTexts == [i \in 1..Len(m_cmds) |-> m_cmds[i][2]]

CommandLines == [i \in 1..Len(m_cmds) |-> m_cmds[i][1]]

\* position i of t lies in a comment: a comment_char at or before it, with
\* no line end from there to i
InComment(t, i) ==
    \E j \in 1..i : t[j] = comment_char /\ \A k \in j..i : t[k] # end_of_comment

IsSep(t, i) == ~InComment(t, i) /\ t[i] = cmd_separator

IsContent(t, i) == ~InComment(t, i) /\ ~isspace(t[i]) /\ t[i] # cmd_separator

\* position i holds the first character of a command: every content
\* position before it is cut off by a separator
CmdStart(t, i) ==
    /\ IsContent(t, i)
    /\ \A j \in 1..(i - 1) : IsContent(t, j) => \E k \in (j + 1)..(i - 1) : IsSep(t, k)

\* the physical line of position i: 1 plus the newlines before it
LineOf(t, i) == 1 + Cardinality({j \in 1..(i - 1) : t[j] = "\n"})

\* the lines of the command starts of t, in order
StartLines(t) ==
    LET starts == {i \in 1..Len(t) : CmdStart(t, i)}
        nth(k) == CHOOSE i \in starts : Cardinality({j \in starts : j <= i}) = k
    IN  [k \in 1..Cardinality(starts) |-> LineOf(t, nth(k))]

\* C6 as stated: the commands are the trimmed texts of the segments that
\* are terminated by a separator and not blank, in order.
C6_CommandsAreTerminatedSegments ==
    pc = "run_parser" =>
        CommandTexts = TrimmedSegments(script_file, NumSeps(script_file))

\* C6 amended: the commands are the trimmed texts of the segments that are
\* not blank, in order, where the text after the last separator is a segment
\* too.
C6_CommandsAreSegments ==
    pc = "run_parser" =>
        CommandTexts = TrimmedSegments(script_file, NumSeps(script_file) + 1)

\* C6 witness: two commands came out of a text that starts with whitespace
\* and ends with a character of a command that no separator follows.
C6_Witness ==
    /\ pc = "run_parser"
    /\ Len(m_cmds) = 2
    /\ script_file[1] = " "
    /\ script_file[Len(script_file)] = "a"

\* C7: the line of each command is the physical line, in the text of the
\* file, of the command's first character that is not whitespace.
C7_LineOfFirstCharacter ==
    pc = "run_parser" => CommandLines = StartLines(file)

\* C7 witness: a comment was removed and a command starts on a line after
\* the first.
C7_Witness ==
    /\ pc = "run_parser"
    /\ script_file # file
    /\ Len(m_cmds) = 2
    /\ m_cmds[1][1] = 2
    /\ m_cmds[2][1] = 3

\* C8: stripping the comments of a stripped text changes nothing.
C8_DeleteCommentsIdempotent ==
    pc # "delete_comments" => delete_comments(script_file) = script_file

\* C8 witness: the text held adjacent comment markers, comments on
\* consecutive lines and a last comment without a line end.
C8_Witness ==
    /\ pc = "separate_commands"
    /\ file = <<"#", "#", "\n", "#">>
    /\ script_file = <<"\n">>

====
